---- MODULE Spec2Model ----
(***************************************************************************)
(* Statement splitter of postgres_lsp (crates/pg_statement_splitter).      *)
(* The Parser session of src/parser.rs, the DDL sub-parsers of             *)
(* src/parser/ddl.rs, and the dispatcher / recovery consumer of            *)
(* parser/common.rs, which is described by the specification only.         *)
(*                                                                         *)
(* Indices are the 0-based indices of the Rust code: tokens.get(i) is      *)
(* tokens[i + 1] here.  Option<usize> is <<>> (None) or <<n>> (Some(n)).   *)
(***************************************************************************)
EXTENDS Integers, Sequences, FiniteSets, TLC

VARIABLES
    raw,                \* the tokenizer's output, lex(sql)
    tokens,             \* Parser.tokens
    eof_token,          \* Parser.eof_token
    next_pos,           \* Parser.next_pos
    ranges,             \* Parser.ranges: closed spans <<start, end>>
    errors,             \* Parser.errors
    current_stmt_start, \* Parser.current_stmt_start
    status,             \* "running" | "panicked" | "finished"
    result,             \* the Parse value returned by finish: byte ranges
    pc,                 \* position of the dispatcher ("api": free use of the methods)
    fn,                 \* the dispatcher function or sub-parser that is executing
    op                  \* the last Parser method called: name, caller, outcome, returned token

vars == <<raw, tokens, eof_token, next_pos, ranges, errors,
          current_stmt_start, status, result, pc, fn, op>>

parser == <<tokens, eof_token, next_pos, ranges, errors, current_stmt_start>>

----------------------------------------------------------------------------
(* Bounds *)

\* longest tokenizer output of a dispatcher-driven session
MaxLen == 4
\* longest tokenizer output when the methods are called freely
MaxApiLen == 2
\* the free calls stop advancing beyond this cursor position
MaxPos == 3
\* the free calls stop opening statements once this many spans are closed
MaxRanges == 2

----------------------------------------------------------------------------
(* The tokenizer interface: pg_lexer's Token, SyntaxKind, WHITESPACE_TOKENS *)

WHITESPACE_TOKENS == {"Whitespace", "Newline", "Tab", "SqlComment"}

Kinds == {"Create", "Alter", "Select", "Ident", "Ascii59", "Whitespace", "Newline"}

\* what the tokenizer can emit: a kind and the number of characters of its text
Shapes ==
    [kind : Kinds \ {"Newline"}, chars : {1}]
        \cup [kind : {"Newline"}, chars : {1, 2}]

RECURSIVE SumChars(_)
SumChars(s) == IF s = <<>> THEN 0 ELSE s[Len(s)].chars + SumChars(SubSeq(s, 1, Len(s) - 1))

\* lex(sql): consecutive tokens that cover the text, each with its byte span
lex(shapes) ==
    [i \in 1..Len(shapes) |->
        [kind  |-> shapes[i].kind,
         chars |-> shapes[i].chars,
         start |-> SumChars(SubSeq(shapes, 1, i - 1)),
         end   |-> SumChars(SubSeq(shapes, 1, i))]]

TextLen(r) == IF r = <<>> THEN 0 ELSE r[Len(r)].end

\* Token::eof(pos): the zero-length end-of-input token at pos
TokenEof(pos) == [kind |-> "Eof", chars |-> 0, start |-> pos, end |-> pos]

RECURSIVE SeqOfLen(_, _)
SeqOfLen(S, n) ==
    IF n = 0 THEN {<<>>}
    ELSE {Append(s, x) : s \in SeqOfLen(S, n - 1), x \in S}

SeqUpTo(S, n) == UNION {SeqOfLen(S, k) : k \in 0..n}

----------------------------------------------------------------------------
(* src/parser.rs *)

\* is_irrelevant_token
is_irrelevant_token(t) ==
    /\ t.kind \in WHITESPACE_TOKENS
    /\ (t.kind # "Newline" \/ t.chars = 1)

\* a filter that keeps every Newline token
RetainedAnyNewline(t) ==
    \/ t.kind \notin WHITESPACE_TOKENS
    \/ t.kind = "Newline"

\* the filter closure of Parser::new
Retained(t) ==
    \/ t.kind \notin WHITESPACE_TOKENS
    \/ (t.kind = "Newline" /\ t.chars > 1)

FilterTokens(ts) == SelectSeq(ts, Retained)

\* eof_token of Parser::new
NewEofToken(toks) ==
    TokenEof(IF toks = <<>> THEN 0 ELSE toks[Len(toks)].start)

\* tokens.get(i).unwrap_or(&eof_token)
TokenAt(toks, eof, i) == IF i < Len(toks) THEN toks[i + 1] ELSE eof

\* the loop of Parser::new that initialises next_pos
RECURSIVE InitialPos(_, _, _)
InitialPos(toks, eof, pos) ==
    IF is_irrelevant_token(TokenAt(toks, eof, pos))
    THEN InitialPos(toks, eof, pos + 1)
    ELSE pos

\* the loop of Parser::advance: next_pos when it returns
RECURSIVE AdvanceScan(_, _, _, _)
AdvanceScan(toks, eof, pos, found) ==
    IF ~is_irrelevant_token(TokenAt(toks, eof, pos))
    THEN IF found THEN pos ELSE AdvanceScan(toks, eof, pos + 1, TRUE)
    ELSE AdvanceScan(toks, eof, pos + 1, found)

\* a cursor that restarts its scan at the first token
AdvancePosRestart(toks, eof, pos) == AdvanceScan(toks, eof, 0, FALSE)

\* a cursor that steps backwards once it has left the first token
AdvancePosRewind(toks, eof, pos) ==
    IF pos = 0 THEN AdvanceScan(toks, eof, pos, FALSE) ELSE pos - 1

\* a cursor that does not move
AdvancePosStuck(toks, eof, pos) == pos

\* a cursor that also consumes the lookahead token
AdvancePosTwice(toks, eof, pos) ==
    AdvanceScan(toks, eof, AdvanceScan(toks, eof, pos, FALSE), FALSE)

\* a cursor that stops at the end of the token vector
AdvancePosClamped(toks, eof, pos) ==
    IF pos >= Len(toks) THEN pos ELSE AdvanceScan(toks, eof, pos, FALSE)

AdvancePos(toks, eof, pos) == AdvanceScan(toks, eof, pos, FALSE)

\* the token Parser::advance returns
RECURSIVE AdvanceToken(_, _, _)
AdvanceToken(toks, eof, pos) ==
    IF ~is_irrelevant_token(TokenAt(toks, eof, pos))
    THEN TokenAt(toks, eof, pos)
    ELSE AdvanceToken(toks, eof, pos + 1)

\* a peek that returns the last token when next_pos is outside the vector
peek_clamped ==
    IF next_pos < Len(tokens) THEN tokens[next_pos + 1]
    ELSE IF tokens = <<>> THEN eof_token ELSE tokens[Len(tokens)]

\* Parser::peek
peek == IF next_pos < Len(tokens) THEN tokens[next_pos + 1] ELSE eof_token

\* Parser::advance
advance ==
    /\ next_pos' = AdvancePos(tokens, eof_token, next_pos)
    /\ UNCHANGED <<tokens, eof_token, ranges, errors, current_stmt_start, status>>

\* Parser::error_at: todo!()
error_at(message) ==
    /\ status' = "panicked"
    /\ UNCHANGED parser

\* an eat that advances whatever the current token is
eat_always_advances(kind) == advance

\* Parser::eat
eat(kind) ==
    IF peek.kind = kind
    THEN advance
    ELSE UNCHANGED <<parser, status>>

\* Parser::expect
expect(kind) ==
    IF peek.kind = kind
    THEN eat(kind)
    ELSE error_at(<<"Expected", kind>>)

\* the span start_stmt records
StmtStart(pos) == pos

\* Parser::start_stmt
start_stmt ==
    IF current_stmt_start # <<>>
    THEN /\ status' = "panicked"
         /\ UNCHANGED parser
    ELSE /\ current_stmt_start' = <<StmtStart(next_pos)>>
         /\ UNCHANGED <<tokens, eof_token, next_pos, ranges, errors, status>>

\* a span end that names the lookahead token
StmtEndAtCursor(pos) == pos

\* the span end close_stmt records
StmtEnd(pos) == pos - 1

\* a close_stmt that appends the span and leaves it open
close_stmt_keeps_open ==
    IF next_pos = 0 \/ current_stmt_start = <<>>
    THEN /\ status' = "panicked"
         /\ UNCHANGED parser
    ELSE /\ ranges' = Append(ranges, <<current_stmt_start[1], next_pos - 1>>)
         /\ UNCHANGED <<tokens, eof_token, next_pos, errors, current_stmt_start, status>>

\* Parser::close_stmt
close_stmt ==
    IF next_pos = 0 \/ current_stmt_start = <<>>
    THEN /\ status' = "panicked"
         /\ UNCHANGED parser
    ELSE /\ ranges' = Append(ranges, <<current_stmt_start[1], StmtEnd(next_pos)>>)
         /\ current_stmt_start' = <<>>
         /\ UNCHANGED <<tokens, eof_token, next_pos, errors, status>>

\* a closure that ends the range where the end token starts
ResolveSpanToStart(toks, eof, span) ==
    IF span[1] >= Len(toks) THEN <<>>
    ELSE LET from == toks[span[1] + 1]
             to   == TokenAt(toks, eof, span[2])
         IN  IF from.start > to.start THEN <<>> ELSE <<from.start, to.start>>

\* the closure of Parser::finish: one span to its byte range; <<>> when it panics
\* (from.unwrap() on None, or TextRange::new with start > end)
ResolveSpan(toks, eof, span) ==
    IF span[1] >= Len(toks) THEN <<>>
    ELSE LET from == toks[span[1] + 1]
             to   == TokenAt(toks, eof, span[2])
         IN  IF from.start > to.end THEN <<>> ELSE <<from.start, to.end>>

FinishRanges(toks, eof, spans) ==
    [i \in 1..Len(spans) |-> ResolveSpan(toks, eof, spans[i])]

FinishPanics(toks, eof, spans) ==
    \E i \in 1..Len(spans) : ResolveSpan(toks, eof, spans[i]) = <<>>

\* Parser::finish
finish ==
    /\ IF FinishPanics(tokens, eof_token, ranges)
       THEN status' = "panicked" /\ UNCHANGED result
       ELSE /\ status' = "finished"
            /\ result' = [ranges |-> FinishRanges(tokens, eof_token, ranges),
                          errors |-> errors]
    /\ UNCHANGED parser

\* a Parser::new that starts with a statement open at the first token
ParserNewOpen(r) ==
    /\ raw = r
    /\ tokens = FilterTokens(r)
    /\ eof_token = NewEofToken(FilterTokens(r))
    /\ next_pos = InitialPos(FilterTokens(r), NewEofToken(FilterTokens(r)), 0)
    /\ ranges = <<>>
    /\ errors = <<>>
    /\ current_stmt_start = <<0>>
    /\ status = "running"
    /\ result = [ranges |-> <<>>, errors |-> <<>>]
    /\ op = [name |-> "new", by |-> "split", ok |-> TRUE, ret |-> <<>>]

\* Parser::new on the tokenizer's output
ParserNew(r) ==
    /\ raw = r
    /\ tokens = FilterTokens(r)
    /\ eof_token = NewEofToken(FilterTokens(r))
    /\ next_pos = InitialPos(FilterTokens(r), NewEofToken(FilterTokens(r)), 0)
    /\ ranges = <<>>
    /\ errors = <<>>
    /\ current_stmt_start = <<>>
    /\ status = "running"
    /\ result = [ranges |-> <<>>, errors |-> <<>>]
    /\ op = [name |-> "new", by |-> "split", ok |-> TRUE, ret |-> <<>>]

\* where the caller continues: nowhere when the call panicked
Then(target) == IF status' = "running" THEN target ELSE pc

Op(name, by) == [name |-> name, by |-> by, ok |-> status' = "running", ret |-> <<>>]

----------------------------------------------------------------------------
(* The methods of Parser called in any order (they are pub, or visible to   *)
(* the sub-parser modules)                                                  *)

InitApi ==
    /\ \E r \in SeqUpTo(Shapes, MaxApiLen) : ParserNew(lex(r))
    /\ pc = "api"
    /\ fn = "api"

ApiPeek ==
    /\ pc = "api" /\ status = "running"
    /\ op' = [name |-> "peek", by |-> "api", ok |-> TRUE, ret |-> <<peek>>]
    /\ UNCHANGED <<raw, parser, status, result, pc, fn>>

ApiAdvance ==
    /\ pc = "api" /\ status = "running"
    /\ next_pos < MaxPos
    /\ advance
    /\ op' = [name |-> "advance", by |-> "api", ok |-> TRUE,
              ret |-> <<AdvanceToken(tokens, eof_token, next_pos)>>]
    /\ UNCHANGED <<raw, result, pc, fn>>

ApiEat ==
    /\ pc = "api" /\ status = "running"
    /\ next_pos < MaxPos
    /\ \E kind \in Kinds \cup {"Eof"} :
        /\ eat(kind)
        /\ op' = [name |-> "eat", by |-> "api", ok |-> peek.kind = kind, ret |-> <<>>]
    /\ UNCHANGED <<raw, result, pc, fn>>

ApiExpect ==
    /\ pc = "api" /\ status = "running"
    /\ next_pos < MaxPos
    /\ \E kind \in Kinds \cup {"Eof"} :
        /\ expect(kind)
        /\ op' = Op("expect", "api")
    /\ UNCHANGED <<raw, result, pc, fn>>

ApiStartStmt ==
    /\ pc = "api" /\ status = "running"
    /\ Len(ranges) < MaxRanges
    /\ start_stmt
    /\ op' = Op("start_stmt", "api")
    /\ UNCHANGED <<raw, result, pc, fn>>

ApiCloseStmt ==
    /\ pc = "api" /\ status = "running"
    /\ close_stmt
    /\ op' = Op("close_stmt", "api")
    /\ UNCHANGED <<raw, result, pc, fn>>

ApiFinish ==
    /\ pc = "api" /\ status = "running"
    /\ finish
    /\ op' = Op("finish", "api")
    /\ UNCHANGED <<raw, pc, fn>>

NextApi ==
    \/ ApiPeek
    \/ ApiAdvance
    \/ ApiEat
    \/ ApiExpect
    \/ ApiStartStmt
    \/ ApiCloseStmt
    \/ ApiFinish

SpecApi == InitApi /\ [][NextApi]_vars

----------------------------------------------------------------------------
(* A splitting session: Parser::new, the dispatcher, the sub-parsers, the   *)
(* recovery consumer, finish                                               *)

Tok(kind, chars) == [kind |-> kind, chars |-> chars]

\* "create table t (\n\nalter table t2"
DocCreateAlter ==
    <<Tok("Create", 6), Tok("Whitespace", 1), Tok("Table", 5), Tok("Whitespace", 1),
      Tok("Ident", 1), Tok("Whitespace", 1), Tok("Ascii40", 1), Tok("Newline", 2),
      Tok("Alter", 5), Tok("Whitespace", 1), Tok("Table", 5), Tok("Whitespace", 1),
      Tok("Ident", 2)>>

\* "select 1\n\nselect 2;"
DocTwoSelects ==
    <<Tok("Select", 6), Tok("Whitespace", 1), Tok("Iconst", 1), Tok("Newline", 2),
      Tok("Select", 6), Tok("Whitespace", 1), Tok("Iconst", 1), Tok("Ascii59", 1)>>

\* "select 1;"
DocOneSelect ==
    <<Tok("Select", 6), Tok("Whitespace", 1), Tok("Iconst", 1), Tok("Ascii59", 1)>>

\* the documents of the specification's test cases
Documents == {DocCreateAlter, DocTwoSelects, DocOneSelect}

Init ==
    /\ \E r \in SeqUpTo(Shapes, MaxLen) \cup Documents : ParserNew(lex(r))
    /\ pc = "source"
    /\ fn = "source"

\* the statement boundaries of the recovery consumer
IsBoundary(t) == t.kind \in {"Ascii59", "Newline", "Eof"}

SubParsers == {"create", "alter", "select"}

\* the leading keyword a sub-parser expects
Keyword(f) ==
    CASE f = "create" -> "Create"
      [] f = "alter"  -> "Alter"
      [] f = "select" -> "Select"

\* the leading keywords the dispatcher knows, and their sub-parsers
SubParserOf(kind) ==
    CASE kind = "Create" -> "create"
      [] kind = "Alter"  -> "alter"
      [] kind = "Select" -> "select"
      [] OTHER           -> "unknown"

\* the dispatcher's loop: tokens are exhausted
SourceEof ==
    /\ pc = "source" /\ status = "running"
    /\ peek.kind = "Eof"
    /\ pc' = "done"
    /\ op' = [name |-> "peek", by |-> "source", ok |-> TRUE, ret |-> <<peek>>]
    /\ UNCHANGED <<raw, parser, status, result, fn>>

\* the dispatcher's loop: skip to a statement start
SourceSkip ==
    /\ pc = "source" /\ status = "running"
    /\ peek.kind = "Newline"
    /\ advance
    /\ op' = Op("advance", "source")
    /\ UNCHANGED <<raw, result, pc, fn>>

\* the dispatcher's loop: a statement starts here
SourceStatement ==
    /\ pc = "source" /\ status = "running"
    /\ peek.kind \notin {"Eof", "Newline"}
    /\ pc' = "statement"
    /\ fn' = "statement"
    /\ op' = [name |-> "peek", by |-> "source", ok |-> TRUE, ret |-> <<peek>>]
    /\ UNCHANGED <<raw, parser, status, result>>

\* the dispatcher opens the statement span
StatementStart ==
    /\ pc = "statement" /\ status = "running"
    /\ start_stmt
    /\ pc' = Then("dispatch")
    /\ op' = Op("start_stmt", "statement")
    /\ UNCHANGED <<raw, result, fn>>

\* the dispatcher selects the sub-parser by the leading keyword
Dispatch ==
    /\ pc = "dispatch" /\ status = "running"
    /\ pc' = SubParserOf(peek.kind)
    /\ fn' = IF SubParserOf(peek.kind) = "unknown" THEN fn ELSE SubParserOf(peek.kind)
    /\ op' = [name |-> "peek", by |-> "statement", ok |-> TRUE, ret |-> <<peek>>]
    /\ UNCHANGED <<raw, parser, status, result>>

\* a create that delegates to unknown without expecting its keyword
create_without_expect ==
    /\ pc = "create" /\ status = "running"
    /\ pc' = "unknown"
    /\ op' = [name |-> "peek", by |-> "create", ok |-> TRUE, ret |-> <<peek>>]
    /\ UNCHANGED <<raw, parser, status, result, fn>>

\* ddl::create up to its call of unknown
create ==
    /\ pc = "create" /\ status = "running"
    /\ expect("Create")
    /\ pc' = Then("unknown")
    /\ op' = Op("expect", "create")
    /\ UNCHANGED <<raw, result, fn>>

\* ddl::alter up to its call of unknown
alter ==
    /\ pc = "alter" /\ status = "running"
    /\ expect("Alter")
    /\ pc' = Then("unknown")
    /\ op' = Op("expect", "alter")
    /\ UNCHANGED <<raw, result, fn>>

\* the DML sub-parser of select up to its call of unknown
select ==
    /\ pc = "select" /\ status = "running"
    /\ expect("Select")
    /\ pc' = Then("unknown")
    /\ op' = Op("expect", "select")
    /\ UNCHANGED <<raw, result, fn>>

\* one turn of the recovery consumer's loop; it returns at a boundary
unknown ==
    /\ pc = "unknown" /\ status = "running"
    /\ IF IsBoundary(peek)
       THEN /\ IF peek.kind = "Ascii59"
               THEN advance /\ op' = Op("advance", "unknown")
               ELSE /\ UNCHANGED <<parser, status>>
                    /\ op' = [name |-> "peek", by |-> "unknown", ok |-> TRUE, ret |-> <<peek>>]
            /\ pc' = "close"
       ELSE /\ advance
            /\ op' = Op("advance", "unknown")
            /\ pc' = pc
    /\ UNCHANGED <<raw, result, fn>>

\* the dispatcher closes the statement span
StatementClose ==
    /\ pc = "close" /\ status = "running"
    /\ close_stmt
    /\ pc' = Then("source")
    /\ fn' = IF status' = "running" THEN "source" ELSE fn
    /\ op' = Op("close_stmt", "statement")
    /\ UNCHANGED <<raw, result>>

\* the session is consumed
Finish ==
    /\ pc = "done" /\ status = "running"
    /\ finish
    /\ op' = Op("finish", "split")
    /\ UNCHANGED <<raw, pc, fn>>

Next ==
    \/ SourceEof
    \/ SourceSkip
    \/ SourceStatement
    \/ StatementStart
    \/ Dispatch
    \/ create
    \/ alter
    \/ select
    \/ unknown
    \/ StatementClose
    \/ Finish

Spec == Init /\ [][Next]_vars

\* the session is one synchronous pass: it runs until it returns or panics
FairSpec == Spec /\ WF_vars(Next)

----------------------------------------------------------------------------
(* C1: every splitting session terminates: it reaches the terminal state,  *)
(* finished, with no span open and the cursor at end-of-input; no input    *)
(* makes it loop forever or panic.                                         *)
C1_SessionTerminates ==
    <>(status = "finished" /\ pc = "done"
       /\ current_stmt_start = <<>> /\ peek.kind = "Eof")

\* a session that split two statements has finished
C1_Witness ==
    status = "finished" /\ Len(result.ranges) = 2 /\ next_pos = Len(tokens)

(* C2: next_pos never decreases: no call of peek, advance, eat, expect,    *)
(* start_stmt or close_stmt leaves it smaller than it was.                 *)
C2_NextPosMonotonic == [][next_pos' >= next_pos]_vars

\* the cursor has moved twice and a statement was closed behind it
C2_Witness ==
    op.name = "close_stmt" /\ op.ok /\ next_pos = 2

(* C3: a call of expect(kind) whose current token is not of that kind      *)
(* appends exactly one SyntaxError, leaves next_pos and the span state     *)
(* unchanged, and returns normally: the session goes on.                   *)
C3_FailedExpectRecordsError ==
    [][(op'.name = "expect" /\ next_pos' = next_pos)
        => /\ Len(errors') = Len(errors) + 1
           /\ ranges' = ranges
           /\ current_stmt_start' = current_stmt_start
           /\ status' = "running"]_vars

(* C4: start_stmt with a span already open, or close_stmt with no span     *)
(* open, yields an explicit failure result and not a panic.                *)
C4_ViolationIsFailureResult ==
    [][(\/ (op'.name = "start_stmt" /\ current_stmt_start # <<>>)
        \/ (op'.name = "close_stmt" /\ current_stmt_start = <<>>))
        => status' # "panicked"]_vars

(* C5: the closed spans are in strictly increasing, non-overlapping order: *)
(* each span ends before the next one starts.                              *)
C5_SpansStrictlyIncreasing ==
    \A i \in 1..(Len(ranges) - 1) : ranges[i][2] < ranges[i + 1][1]

\* two spans are closed, the second after the cursor moved on
C5_Witness ==
    /\ Len(ranges) = 2
    /\ ranges[1][1] <= ranges[1][2]
    /\ ranges[2][1] <= ranges[2][2]

(* C6: the byte ranges finish returns are in source order, do not overlap  *)
(* and lie within the text; every token of the text lies in a range or in  *)
(* a gap, and the tokens in the gaps are whitespace only.                  *)
C6_RangesPartitionText ==
    status = "finished" =>
        LET R == result.ranges IN
        /\ \A i \in 1..Len(R) :
              0 <= R[i][1] /\ R[i][1] <= R[i][2] /\ R[i][2] <= TextLen(raw)
        /\ \A i \in 1..(Len(R) - 1) : R[i][2] <= R[i + 1][1]
        /\ \A k \in 1..Len(raw) :
              \/ \E i \in 1..Len(R) : R[i][1] <= raw[k].start /\ raw[k].end <= R[i][2]
              \/ raw[k].kind \in WHITESPACE_TOKENS

\* two ranges with discarded whitespace between them and after them
C6_Witness ==
    /\ status = "finished"
    /\ Len(result.ranges) = 2
    /\ result.ranges[1][2] < result.ranges[2][1]
    /\ result.ranges[2][2] < TextLen(raw)

(* C7: the span state alternates Idle -> StatementOpen -> Idle: start_stmt *)
(* is called only with no span open and never at end-of-input, close_stmt  *)
(* only with a span open, nothing else opens or closes a span, and the     *)
(* session ends with no span open and the cursor at end-of-input.          *)
C7_SpanStateAlternates ==
    [][/\ (op'.name = "start_stmt"
            => /\ current_stmt_start = <<>> /\ current_stmt_start' # <<>>
               /\ peek.kind # "Eof")
       /\ (op'.name = "close_stmt"
            => current_stmt_start # <<>> /\ current_stmt_start' = <<>>)
       /\ (current_stmt_start' # current_stmt_start
            => op'.name \in {"start_stmt", "close_stmt"})
       /\ (pc' = "done"
            => current_stmt_start' = <<>> /\ peek'.kind = "Eof")]_vars

\* idle again after two statements, with a third one ahead
C7_Witness ==
    /\ pc = "source" /\ Len(ranges) = 2
    /\ current_stmt_start = <<>> /\ peek.kind # "Eof"

(* C8: the recovery consumer always returns, and when it returns it has    *)
(* consumed tokens up to the first statement boundary: it passed over no   *)
(* boundary token, and it stopped just after a ';' or in front of a        *)
(* significant double newline or end-of-input.                             *)
C8_UnknownStopsAtFirstBoundary ==
    /\ [](pc = "close" =>
            /\ current_stmt_start # <<>>
            /\ \A i \in current_stmt_start[1]..(next_pos - 2) :
                  ~IsBoundary(TokenAt(tokens, eof_token, i))
            /\ \/ (next_pos > 0 /\ TokenAt(tokens, eof_token, next_pos - 1).kind = "Ascii59")
               \/ peek.kind \in {"Newline", "Eof"})
    /\ ((pc = "unknown") ~> (pc = "close"))

\* unknown returned in front of a double newline after consuming two tokens
C8_Witness ==
    /\ pc = "close" /\ peek.kind = "Newline"
    /\ current_stmt_start = <<0>> /\ next_pos = 2

C10_CloseStmtFrame ==
    [][(op'.name = "close_stmt" /\ current_stmt_start # <<>> /\ next_pos > 0)
        => /\ ranges' = Append(ranges, <<current_stmt_start[1], next_pos - 1>>)
           /\ current_stmt_start' = <<>>
           /\ next_pos' = next_pos
           /\ tokens' = tokens
           /\ eof_token' = eof_token
           /\ errors' = errors
           /\ status' = status]_vars

\* a second span was closed behind two consumed tokens
C10_Witness ==
    /\ op.name = "close_stmt" /\ op.ok
    /\ Len(ranges) = 2
    /\ ranges[2] = <<1, 1>>

(* C11: when finish returns, it returns one byte range per closed span, in *)
(* the same order; span (start, end) becomes [tokens[start].span.start,    *)
(* tokens[end].span.end), with the EOF sentinel's span end when end is     *)
(* beyond the token vector; the errors are returned as they were recorded. *)
C11_FinishResolvesSpans ==
    [][(op'.name = "finish" /\ status' = "finished")
        => /\ Len(result'.ranges) = Len(ranges)
           /\ \A i \in 1..Len(ranges) :
                 /\ ranges[i][1] < Len(tokens)
                 /\ result'.ranges[i][1] = tokens[ranges[i][1] + 1].start
                 /\ result'.ranges[i][2] =
                        IF ranges[i][2] < Len(tokens)
                        THEN tokens[ranges[i][2] + 1].end
                        ELSE eof_token.end
           /\ result'.errors = errors]_vars

\* finish returned two ranges, the second resolved through the EOF sentinel
C11_Witness ==
    /\ status = "finished" /\ op.name = "finish"
    /\ Len(result.ranges) = 2
    /\ ranges[1][2] < Len(tokens)
    /\ ranges[2][2] >= Len(tokens)

(* C12: the end-of-input token of Parser::new has zero length and starts   *)
(* at the end byte offset of the last retained token, or at 0 when no      *)
(* token is retained; a lookup outside the token vector returns it.        *)
C12_EofAtEndOfLastToken ==
    /\ eof_token.start = eof_token.end
    /\ eof_token.start = (IF tokens = <<>> THEN 0 ELSE tokens[Len(tokens)].end)
    /\ (next_pos >= Len(tokens) => peek = eof_token)

\* the indices of the tokenizer's output that are significant: not
\* whitespace-like, or a Newline of more than one character
Significant ==
    {k \in 1..Len(raw) :
        \/ raw[k].kind \notin WHITESPACE_TOKENS
        \/ (raw[k].kind = "Newline" /\ raw[k].chars > 1)}

\* the i-th significant index, in source order
NthSignificant(i) ==
    CHOOSE k \in Significant : Cardinality({j \in Significant : j < k}) = i - 1

(* C13: the session's token vector is the order-preserving subsequence of  *)
(* the tokenizer's output made of every non-whitespace token and every     *)
(* Newline token of more than one character, and of nothing else.          *)
C13_TokensAreSignificantSubsequence ==
    /\ Len(tokens) = Cardinality(Significant)
    /\ \A i \in 1..Len(tokens) : tokens[i] = raw[NthSignificant(i)]

\* two tokens kept, a single newline and a space dropped between them
C13_Witness ==
    /\ Len(raw) = 4 /\ Len(tokens) = 2
    /\ raw[1].kind = "Ident"
    /\ raw[2].kind = "Newline" /\ raw[2].chars = 1
    /\ raw[3].kind = "Whitespace"
    /\ raw[4].kind = "Newline" /\ raw[4].chars = 2
    /\ tokens = <<raw[1], raw[4]>>

C15_DoubleNewlineSplits ==
    status = "finished" =>
        /\ (raw = lex(DocTwoSelects) => result.ranges = <<<<0, 8>>, <<10, 19>>>>)
        /\ \A k \in 2..(Len(tokens) - 1) :
              (/\ \A j \in 1..Len(tokens) : (tokens[j].kind = "Newline") <=> (j = k)
               /\ \A j \in 1..(Len(tokens) - 1) : tokens[j].kind # "Ascii59")
              => result.ranges = <<<<tokens[1].start, tokens[k - 1].end>>,
                                   <<tokens[k + 1].start, tokens[Len(tokens)].end>>>>

\* the session over "select 1\n\nselect 2;" has finished
C15_Witness ==
    status = "finished" /\ raw = lex(DocTwoSelects) /\ Len(result.ranges) = 2

(* C16: a single statement terminated by ';' yields exactly one range,     *)
(* from the first token's start to the end of the ';', and no error.       *)
C16_SingleStatementOneRange ==
    status = "finished" =>
        /\ (raw = lex(DocOneSelect)
              => result.ranges = <<<<0, 9>>>> /\ result.errors = <<>>)
        /\ (/\ tokens # <<>>
            /\ \A j \in 1..Len(tokens) :
                  /\ tokens[j].kind # "Newline"
                  /\ (tokens[j].kind = "Ascii59") <=> (j = Len(tokens)))
           => /\ result.ranges = <<<<tokens[1].start, tokens[Len(tokens)].end>>>>
              /\ result.errors = <<>>

\* the session over "select 1;" has finished
C16_Witness ==
    status = "finished" /\ raw = lex(DocOneSelect) /\ Len(result.ranges) = 1

(* C17: an input without statement tokens yields no statement: the empty   *)
(* input and an input of whitespace only open no statement, record no      *)
(* error, and finish with zero ranges and zero errors.                     *)
C17_WhitespaceOnlyNoStatement ==
    (\A k \in 1..Len(raw) : raw[k].kind \in WHITESPACE_TOKENS)
        => /\ status # "panicked"
           /\ op.name # "start_stmt"
           /\ current_stmt_start = <<>>
           /\ ranges = <<>>
           /\ errors = <<>>
           /\ (status = "finished"
                => result.ranges = <<>> /\ result.errors = <<>>)

\* the session over a space and a blank line has finished
C17_Witness ==
    /\ status = "finished"
    /\ Len(raw) = 2
    /\ raw[1].kind = "Whitespace"
    /\ raw[2].kind = "Newline" /\ raw[2].chars = 2
    /\ result.ranges = <<>>

(* C18: eat(kind) returns true and performs exactly one advance when the   *)
(* current token has that kind; otherwise it returns false and leaves      *)
(* next_pos, the spans, the open span and the errors unchanged.            *)
C18_EatFrame ==
    [][op'.name = "eat"
        => /\ (op'.ok => next_pos' = next_pos + 1)
           /\ (~op'.ok => next_pos' = next_pos)
           /\ ranges' = ranges
           /\ current_stmt_start' = current_stmt_start
           /\ errors' = errors
           /\ tokens' = tokens
           /\ status' = status]_vars

\* a second eat matched and consumed the second token
C18_Witness ==
    op.name = "eat" /\ op.ok /\ next_pos = 2 /\ Len(tokens) = 2

\* the first index at or after pos whose token is relevant (the EOF
\* sentinel, which every index outside the vector yields, is relevant)
FirstRelevantFrom(pos) ==
    CHOOSE i \in pos..(pos + Len(tokens)) :
        /\ ~is_irrelevant_token(TokenAt(tokens, eof_token, i))
        /\ \A j \in pos..(i - 1) : is_irrelevant_token(TokenAt(tokens, eof_token, j))

(* C19: advance returns the first relevant token at or after the old       *)
(* next_pos and leaves next_pos strictly past it, on a relevant token or   *)
(* end-of-input; in every reachable state peek is not an irrelevant token. *)
C19_AdvanceToNextRelevant ==
    /\ [](~is_irrelevant_token(peek))
    /\ [][(op'.name = "advance" /\ op'.by = "api")
           => /\ op'.ret = <<TokenAt(tokens, eof_token, FirstRelevantFrom(next_pos))>>
              /\ next_pos' > FirstRelevantFrom(next_pos)
              /\ ~is_irrelevant_token(peek')]_vars

\* advance returned the only retained token of a text that ends in whitespace
C19_Witness ==
    /\ op.name = "advance" /\ op.by = "api"
    /\ Len(raw) = 2 /\ tokens = <<raw[1]>>
    /\ op.ret = <<raw[1]>>
    /\ next_pos = 1

(* C20: peek is total and free of side effects: for every next_pos it      *)
(* returns tokens[next_pos] inside the token vector and the EOF sentinel   *)
(* outside, and it changes no part of the session.                         *)
C20_PeekTotalAndPure ==
    /\ []((pc = "api" /\ status = "running") => ENABLED ApiPeek)
    /\ [][(op'.name = "peek" /\ op'.by = "api")
           => /\ op'.ret = <<IF next_pos < Len(tokens)
                              THEN tokens[next_pos + 1] ELSE eof_token>>
              /\ UNCHANGED <<parser, status, result>>]_vars

\* peek returned the sentinel with the cursor beyond the end of the vector
C20_Witness ==
    /\ op.name = "peek" /\ op.by = "api"
    /\ tokens # <<>> /\ next_pos > Len(tokens)
    /\ op.ret = <<eof_token>>

(* C21: after any calls of start_stmt, advance, eat, expect and close_stmt *)
(* that respect the open/closed preconditions, every recorded span has     *)
(* start index <= end index, and finish resolves every span whose start    *)
(* token exists to a byte range with start offset <= end offset; this      *)
(* includes a start_stmt directly followed by close_stmt.                  *)
C21_SpansWellFormed ==
    /\ [](\A i \in 1..Len(ranges) : ranges[i][1] <= ranges[i][2])
    /\ [][(/\ op'.name = "finish"
           /\ \A i \in 1..Len(ranges) : ranges[i][1] < Len(tokens))
           => /\ status' = "finished"
              /\ \A i \in 1..Len(result'.ranges) :
                    result'.ranges[i][1] <= result'.ranges[i][2]]_vars

(* C22: every span start recorded by start_stmt is an index into the token *)
(* vector (start < len(tokens)): no statement is started with next_pos at  *)
(* or beyond end-of-input, and finish resolves the start token of every    *)
(* recorded span and never fails.                                          *)
C22_SpanStartsAreTokens ==
    /\ [][(op'.name = "start_stmt" /\ op'.ok) => next_pos < Len(tokens)]_vars
    /\ [](\A i \in 1..Len(ranges) : ranges[i][1] < Len(tokens))
    /\ [][op'.name = "finish" => status' = "finished"]_vars

(* C23: advance with next_pos at or beyond the end of the token vector     *)
(* returns the EOF sentinel and still increases next_pos by one, so        *)
(* next_pos is not bounded by len(tokens); a close_stmt after such an      *)
(* advance records an end index >= len(tokens); finish resolves that end   *)
(* through the EOF sentinel's span, and it returns whenever every span     *)
(* starts on a token and does not end before its start.                    *)
C23_AdvanceBeyondEof ==
    /\ [][(op'.name = "advance" /\ next_pos >= Len(tokens))
           => /\ op'.ret = <<eof_token>>
              /\ next_pos' = next_pos + 1]_vars
    /\ [][(op'.name = "close_stmt" /\ op'.ok /\ next_pos > Len(tokens))
           => /\ Len(ranges') = Len(ranges) + 1
              /\ ranges'[Len(ranges')][2] = next_pos - 1
              /\ ranges'[Len(ranges')][2] >= Len(tokens)]_vars
    /\ [][op'.name = "finish"
           => /\ (\A i \in 1..Len(ranges) :
                     ranges[i][1] < Len(tokens) /\ ranges[i][1] <= ranges[i][2])
                 => status' = "finished"
              /\ status' = "finished"
                 => \A i \in 1..Len(ranges) :
                       ranges[i][2] >= Len(tokens)
                       => result'.ranges[i] =
                            <<tokens[ranges[i][1] + 1].start, eof_token.end>>]_vars

\* finish returned the range of a span that was closed after an advance at
\* end-of-input, with the cursor beyond the token vector
C23_Witness ==
    /\ status = "finished" /\ op.name = "finish"
    /\ tokens # <<>> /\ next_pos > Len(tokens)
    /\ ranges # <<>>
    /\ ranges[Len(ranges)] = <<Len(tokens) - 1, Len(tokens)>>
    /\ result.ranges[Len(ranges)][2] = eof_token.end

(* C24: on the tokenizer's output the filter of Parser::new and            *)
(* is_irrelevant_token are exact complements: a token is retained iff      *)
(* is_irrelevant_token is false for it.  So the token vector holds no      *)
(* irrelevant token, Parser::new initialises next_pos to 0, and every      *)
(* advance increases next_pos by exactly 1.                                *)
C24_FilterComplementsIrrelevant ==
    /\ [](\A k \in 1..Len(raw) : Retained(raw[k]) <=> ~is_irrelevant_token(raw[k]))
    /\ [](\A i \in 1..Len(tokens) : ~is_irrelevant_token(tokens[i]))
    /\ [](op.name = "new" => next_pos = 0)
    /\ [][op'.name = "advance" => next_pos' = next_pos + 1]_vars
    /\ [][next_pos' # next_pos => next_pos' = next_pos + 1]_vars

\* advance consumed the only retained token of a text that starts with a
\* dropped space
C24_Witness ==
    /\ op.name = "advance" /\ op.by = "api"
    /\ Len(raw) = 2 /\ raw[1].kind = "Whitespace"
    /\ tokens = <<raw[2]>>
    /\ next_pos = 1

====
